---- MODULE Spec2Model ----
(***************************************************************************)
(* Model of bdd100k2yolo.py: conversion of BDD100K polygon labels to       *)
(* YOLO text labels, one pass per split, followed by the data.yaml         *)
(* manifest.                                                               *)
(*                                                                         *)
(* Strings that the program compares or sorts (category names) are         *)
(* sequences of character codes, so that Python's lexicographic order on   *)
(* str is computed, not assumed.  A Python dict is a sequence of           *)
(* <<key, value>> pairs in insertion order.  A formatted float "%.6f" is   *)
(* the integer number of millionths it prints.                             *)
(***************************************************************************)
EXTENDS Integers, Sequences, FiniteSets, TLC

VARIABLES
    input,              \* split -> content of the split's JSON label file
    pending,            \* splits the driver still has to run process_dataset on
    split,              \* split being converted
    pc,                 \* control point
    data,               \* bdd100k_to_yolov8: data (the loaded JSON array)
    category_mapping,   \* bdd100k_to_yolov8: the category_mapping argument
    i,                  \* index (1-based) of the item the for loop is at
    j,                  \* index (1-based) of the label the inner loop is at
    categories_in_json, \* Counter of poly2d labels per category
    processed_images,   \* set of image file names seen
    missing_images,     \* list of image file names whose copy failed
    warnings,           \* categories of the "not in category_mapping" warnings printed
    label_files,        \* split -> (stem -> lines of <output_dir>/<stem>.txt)
    dst_images,         \* split -> image files present in image_dst_dir
    ret,                \* value returned by bdd100k_to_yolov8
    results,            \* split -> tuple returned by process_dataset
    report,             \* split -> the counts process_dataset printed
    data_yaml           \* the manifest, once written

vars == << input, pending, split, pc, data, category_mapping, i, j,
           categories_in_json, processed_images, missing_images, warnings,
           label_files, dst_images, ret, results, report, data_yaml >>

(***************************************************************************)
(* Bounds of the explored inputs                                           *)
(***************************************************************************)
MaxRecords == 2       \* records per JSON file (single-split specifications)
MaxLabels == 2        \* labels per JSON file, over all its records
MainMaxRecords == 1   \* records per JSON file when both splits are run
MainMaxLabels == 2    \* labels of the train JSON file when both splits are run
MainMaxValLabels == 1 \* labels of the val JSON file when both splits are run

(***************************************************************************)
(* Program constants                                                       *)
(***************************************************************************)
ImageWidth == 1280
ImageHeight == 720
Decimals == 6
MinVertices == 3

Splits == {"train", "val"}

\* Category names as character codes (ord of each character).
bike == << 98, 105, 107, 101 >>
car == << 99, 97, 114 >>
person == << 112, 101, 114, 115, 111, 110 >>
Categories == {bike, car, person}

\* Image file names, kept as (root, extension) so that os.path.splitext is
\* a projection.
ImgA == [stem |-> "a", ext |-> ".jpg"]
ImgB == [stem |-> "b", ext |-> ".jpg"]
Names == {ImgA, ImgB}
\* Files present in the source image directory: copying ImgB raises
\* FileNotFoundError.
SrcImages == {ImgA}

\* Vertex lists.  Coordinates are chosen so that x*10^6/1280 and y*10^6/720
\* are never exactly halfway between two millionths.
Quad == << <<0, 0>>, <<1280, 0>>, <<640, 360>>, <<0, 720>> >>
Tri == << <<1, 1>>, <<1920, 360>>, <<640, -360>> >>
Pair == << <<0, 0>>, <<640, 360>> >>
Single == << <<640, 360>> >>

\* Labels: a Python dict with optional keys "category" and "poly2d".
LCarQuad == [category |-> car, poly2d |-> << [vertices |-> Quad] >>]
LBikeTri == [category |-> bike, poly2d |-> << [vertices |-> Tri] >>]
LBikePairQuad ==
    [category |-> bike, poly2d |-> << [vertices |-> Pair], [vertices |-> Quad] >>]
LCarSingle == [category |-> car, poly2d |-> << [vertices |-> Single] >>]
LPersonNone == [category |-> person, poly2d |-> << [vertices |-> << >>] >>]
LPersonBox == [category |-> person, id |-> 1]
LBare == [id |-> 2]
LPolyNoCategory == [id |-> 3, poly2d |-> << [vertices |-> Quad] >>]
LCarNoPolygon == [category |-> car, poly2d |-> << >>]

Labels ==
    { LCarQuad, LBikeTri, LBikePairQuad, LCarSingle, LPersonNone, LPersonBox,
      LBare, LPolyNoCategory, LCarNoPolygon }
MainLabels == { LCarQuad, LBikeTri, LPersonBox }

\* A JSON array given by its records' names, the labels of all its records
\* in file order, and for each label the record it belongs to.
MakeDataset(names, flat, owner) ==
    [k \in 1..Len(names) |->
        LET before == Cardinality({ m \in 1..Len(flat) : owner[m] < k })
            here == Cardinality({ m \in 1..Len(flat) : owner[m] = k })
        IN  [name |-> names[k],
             labels |-> [n \in 1..here |-> flat[before + n]]]]

\* Assignments of t labels in file order to r records
Owners(t, r) ==
    { o \in [1..t -> 1..r] : \A m \in 1..t : \A n \in 1..t : m < n => o[m] <= o[n] }

(***************************************************************************)
(* Python helpers                                                          *)
(***************************************************************************)
\* str.__lt__
RECURSIVE LexLess(_, _)
LexLess(a, b) ==
    IF a = << >> THEN b # << >>
    ELSE IF b = << >> THEN FALSE
    ELSE IF a[1] # b[1] THEN a[1] < b[1]
    ELSE LexLess(Tail(a), Tail(b))

\* Variant of sorted: sorted(set of str, reverse=True)
RECURSIVE sorted_descending(_)
sorted_descending(S) ==
    IF S = {} THEN << >>
    ELSE LET m == CHOOSE x \in S : \A y \in S \ {x} : LexLess(y, x)
         IN  <<m>> \o sorted_descending(S \ {m})

\* sorted(set of str)
RECURSIVE sorted(_)
sorted(S) ==
    IF S = {} THEN << >>
    ELSE LET m == CHOOSE x \in S : \A y \in S \ {x} : LexLess(x, y)
         IN  <<m>> \o sorted(S \ {m})

\* dict operations on a sequence of <<key, value>> pairs
Keys(d) == [k \in 1..Len(d) |-> d[k][1]]
KeySet(d) == { d[k][1] : k \in 1..Len(d) }
Has(d, key) == key \in KeySet(d)
Get(d, key) == d[CHOOSE k \in 1..Len(d) : d[k][1] = key][2]

\* {category: idx for idx, category in enumerate(seq)}
EnumerateDict(s) == [k \in 1..Len(s) |-> << s[k], k - 1 >>]

\* A dict or Counter with no key
EmptyMap == [k \in {} |-> 0]

\* Counter: a function from the counted keys to their counts
Count(counter, key) == IF key \in DOMAIN counter THEN counter[key] ELSE 0
Increment(counter, key) ==
    [k \in DOMAIN counter \cup {key} |->
        IF k = key THEN Count(counter, key) + 1 ELSE counter[k]]

\* round(n/d) to the nearest integer, ties to even: the digits "%.6f" prints
RoundDiv(n, d) ==
    LET a == IF n < 0 THEN -n ELSE n
        q == a \div d
        r == a % d
        m == IF 2 * r < d THEN q
             ELSE IF 2 * r > d THEN q + 1
             ELSE q + (q % 2)
    IN  IF n < 0 THEN -m ELSE m

RECURSIVE Pow10(_)
Pow10(n) == IF n = 0 THEN 1 ELSE 10 * Pow10(n - 1)

\* f"{v/size:.6f}", in millionths
Format6(v, size) == RoundDiv(v * Pow10(Decimals), size)

(***************************************************************************)
(* update_category_mapping                                                 *)
(***************************************************************************)
\* Variant of the inner loop of lines 14-16: only item['labels'][0] is looked at
CollectLabels_first(labels, categories) ==
    IF labels # << >> /\ "category" \in DOMAIN Head(labels)
    THEN categories \cup { Head(labels).category }
    ELSE categories

\* Lines 14-16: the loop over one item's labels
RECURSIVE CollectLabels(_, _)
CollectLabels(labels, categories) ==
    IF labels = << >> THEN categories
    ELSE CollectLabels(Tail(labels),
            IF "category" \in DOMAIN Head(labels)
            THEN categories \cup { Head(labels).category }
            ELSE categories)

\* Lines 13-16: the loop over the items
RECURSIVE CollectItems(_, _)
CollectItems(json_data, categories) ==
    IF json_data = << >> THEN categories
    ELSE CollectItems(Tail(json_data),
            CollectLabels(Head(json_data).labels, categories))

update_category_mapping(json_data) ==
    EnumerateDict(sorted(CollectItems(json_data, {})))

(***************************************************************************)
(* bdd100k_to_yolov8                                                       *)
(***************************************************************************)
\* os.path.splitext(image_file)[0] + '.txt', identified by its root
OutputFile(image_file) == image_file.stem

\* Variant of PolyFlat: y is divided by the width as well
RECURSIVE PolyFlat_width(_)
PolyFlat_width(poly) ==
    IF poly = << >> THEN << >>
    ELSE << Format6(Head(poly)[1], ImageWidth), Format6(Head(poly)[2], ImageWidth) >>
         \o PolyFlat_width(Tail(poly))

\* poly_norm, poly_flat and the formatted values of one vertex list
RECURSIVE PolyFlat(_)
PolyFlat(poly) ==
    IF poly = << >> THEN << >>
    ELSE << Format6(Head(poly)[1], ImageWidth), Format6(Head(poly)[2], ImageHeight) >>
         \o PolyFlat(Tail(poly))

\* Variant of the polygon test: len(poly) < 2
TooFewVertices_two(poly) == Len(poly) < 2

\* The polygon test of line 56
TooFewVertices(poly) == Len(poly) < MinVertices

\* What the body of the inner loop does with one label:
\*   counted - categories_in_json[category] += 1 was executed
\*   warned  - the warning was printed
\*   raised  - an exception (KeyError, IndexError) left the function
\*   lines   - what f.write appended
\* A written line carries, beside category_id and the values, the category
\* of the label it was written for (not part of the text).
LabelStep(label, mapping) ==
    IF "poly2d" \notin DOMAIN label
    THEN [counted |-> FALSE, warned |-> FALSE, raised |-> FALSE, lines |-> << >>]
    ELSE IF "category" \notin DOMAIN label
    THEN [counted |-> FALSE, warned |-> FALSE, raised |-> TRUE, lines |-> << >>]
    ELSE IF ~Has(mapping, label.category)
    THEN [counted |-> TRUE, warned |-> TRUE, raised |-> FALSE, lines |-> << >>]
    ELSE IF label.poly2d = << >>
    THEN [counted |-> TRUE, warned |-> FALSE, raised |-> TRUE, lines |-> << >>]
    ELSE IF TooFewVertices(label.poly2d[1].vertices)
    THEN [counted |-> TRUE, warned |-> FALSE, raised |-> FALSE, lines |-> << >>]
    ELSE [counted |-> TRUE, warned |-> FALSE, raised |-> FALSE,
          lines |-> << [category_id |-> Get(mapping, label.category),
                        values |-> PolyFlat(label.poly2d[1].vertices),
                        category |-> label.category] >>]

\* open(output_file, 'w'): the file exists and is empty
OpenForWrite(files, file) ==
    [f \in DOMAIN files \cup {file} |-> IF f = file THEN << >> ELSE files[f]]

\* Lines 21-28: load the JSON, empty counters
Enter(s, mapping) ==
    /\ split' = s
    /\ data' = input[s]
    /\ category_mapping' = mapping
    /\ categories_in_json' = EmptyMap
    /\ processed_images' = {}
    /\ missing_images' = << >>
    /\ i' = 1
    /\ j' = 1
    /\ pc' = "loop"

\* Lines 30-45: the copy succeeds and the label file is opened
CopyImage ==
    /\ pc = "loop"
    /\ i <= Len(data)
    /\ data[i].name \in SrcImages
    /\ processed_images' = processed_images \cup { data[i].name }
    /\ dst_images' = [dst_images EXCEPT ![split] = @ \cup { data[i].name }]
    /\ label_files' =
         [label_files EXCEPT ![split] = OpenForWrite(@, OutputFile(data[i].name))]
    /\ j' = 1
    /\ pc' = "labels"
    /\ UNCHANGED << input, pending, split, data, category_mapping, i,
                    categories_in_json, missing_images, warnings, ret, results,
                    report, data_yaml >>

\* Lines 30-43: FileNotFoundError, the item is skipped
MissingImage ==
    /\ pc = "loop"
    /\ i <= Len(data)
    /\ data[i].name \notin SrcImages
    /\ processed_images' = processed_images \cup { data[i].name }
    /\ missing_images' = Append(missing_images, data[i].name)
    /\ i' = i + 1
    /\ UNCHANGED << input, pending, split, pc, data, category_mapping, j,
                    categories_in_json, warnings, label_files, dst_images, ret,
                    results, report, data_yaml >>

\* Lines 46-63: one iteration of the loop over the item's labels
ProcessLabel ==
    /\ pc = "labels"
    /\ j <= Len(data[i].labels)
    /\ LET label == data[i].labels[j]
           step == LabelStep(label, category_mapping)
           file == OutputFile(data[i].name)
       IN  /\ categories_in_json' =
                IF step.counted
                THEN Increment(categories_in_json, label.category)
                ELSE categories_in_json
           /\ warnings' =
                IF step.warned THEN Append(warnings, label.category) ELSE warnings
           /\ label_files' =
                [label_files EXCEPT ![split][file] = @ \o step.lines]
           /\ pc' = IF step.raised THEN "crashed" ELSE "labels"
           /\ j' = IF step.raised THEN j ELSE j + 1
    /\ UNCHANGED << input, pending, split, data, category_mapping, i,
                    processed_images, missing_images, dst_images, ret, results,
                    report, data_yaml >>

\* Line 45: the with block ends, the file is closed, next item
CloseFile ==
    /\ pc = "labels"
    /\ j > Len(data[i].labels)
    /\ i' = i + 1
    /\ pc' = "loop"
    /\ UNCHANGED << input, pending, split, data, category_mapping, j,
                    categories_in_json, processed_images, missing_images,
                    warnings, label_files, dst_images, ret, results, report,
                    data_yaml >>

\* Lines 65-78: statistics are printed and the counts returned
Return ==
    /\ pc = "loop"
    /\ i > Len(data)
    /\ ret' = [processed_count |-> Cardinality(processed_images),
               missing_count |-> Len(missing_images),
               category_instances |-> categories_in_json]
    /\ pc' = "returned"
    /\ UNCHANGED << input, pending, split, data, category_mapping, i, j,
                    categories_in_json, processed_images, missing_images,
                    warnings, label_files, dst_images, results, report,
                    data_yaml >>

NoRet == [processed_count |-> 0, missing_count |-> 0, category_instances |-> EmptyMap]

\* Arguments a caller may pass as category_mapping
MappingArguments == { EnumerateDict(sorted(S)) : S \in { {}, {car}, Categories } }

\* A direct call bdd100k_to_yolov8(input_json, ..., category_mapping)
InitConv ==
    /\ \E r \in 0..MaxRecords, t \in 0..MaxLabels :
          \E names \in [1..r -> Names], flat \in [1..t -> Labels],
             owner \in Owners(t, r) :
              data = MakeDataset(names, flat, owner)
    /\ input = [s \in Splits |-> IF s = "train" THEN data ELSE << >>]
    /\ pending = << >>
    /\ split = "train"
    /\ pc = "loop"
    /\ category_mapping \in MappingArguments
    /\ i = 1
    /\ j = 1
    /\ categories_in_json = EmptyMap
    /\ processed_images = {}
    /\ missing_images = << >>
    /\ warnings = << >>
    /\ label_files = [s \in Splits |-> EmptyMap]
    /\ dst_images = [s \in Splits |-> {}]
    /\ ret = NoRet
    /\ results = EmptyMap
    /\ report = EmptyMap
    /\ data_yaml = << >>

NextConv ==
    \/ CopyImage
    \/ MissingImage
    \/ ProcessLabel
    \/ CloseFile
    \/ Return

SpecConv == InitConv /\ [][NextConv]_vars

(***************************************************************************)
(* process_dataset and the driver                                          *)
(***************************************************************************)
\* Lines 80-98 and 21-28: the mapping is built from the split's JSON and
\* bdd100k_to_yolov8 is called on the same file
ProcessDataset ==
    /\ pc = "main"
    /\ pending # << >>
    /\ pending' = Tail(pending)
    /\ Enter(Head(pending), update_category_mapping(input[Head(pending)]))
    /\ UNCHANGED << input, warnings, label_files, dst_images, ret, results,
                    report, data_yaml >>

\* Lines 98-110: the counts are printed and the tuple returned
ProcessDatasetReturn ==
    /\ pc = "returned"
    /\ report' =
         [s \in DOMAIN report \cup {split} |->
            IF s = split
            THEN [images_copied |-> ret.processed_count,
                  label_files_created |-> ret.processed_count,
                  missing_images |-> ret.missing_count]
            ELSE report[s]]
    /\ results' =
         [s \in DOMAIN results \cup {split} |->
            IF s = split
            THEN [processed_count |-> ret.processed_count,
                  missing_count |-> ret.missing_count,
                  initial_json_entries |-> Len(input[split]),
                  category_mapping |-> category_mapping,
                  category_instances |-> ret.category_instances]
            ELSE results[s]]
    /\ pc' = "main"
    /\ UNCHANGED << input, pending, split, data, category_mapping, i, j,
                    categories_in_json, processed_images, missing_images,
                    warnings, label_files, dst_images, ret, data_yaml >>

\* Variant of line 133: the validation split's mapping is taken
final_category_mapping_val == results["val"].category_mapping

\* Line 133
final_category_mapping == results["train"].category_mapping

\* Lines 121-152: data.yaml
WriteYaml ==
    /\ pc = "main"
    /\ pending = << >>
    /\ data_yaml' = << [nc |-> Len(final_category_mapping),
                        names |-> Keys(final_category_mapping)] >>
    /\ pc' = "done"
    /\ UNCHANGED << input, pending, split, data, category_mapping, i, j,
                    categories_in_json, processed_images, missing_images,
                    warnings, label_files, dst_images, ret, results, report >>

\* State before the first statement of a run with the calls `todo` ahead
Start(todo) ==
    /\ pending = todo
    /\ split = "train"
    /\ pc = "main"
    /\ data = << >>
    /\ category_mapping = << >>
    /\ i = 1
    /\ j = 1
    /\ categories_in_json = EmptyMap
    /\ processed_images = {}
    /\ missing_images = << >>
    /\ warnings = << >>
    /\ label_files = [s \in Splits |-> EmptyMap]
    /\ dst_images = [s \in Splits |-> {}]
    /\ ret = NoRet
    /\ results = EmptyMap
    /\ report = EmptyMap
    /\ data_yaml = << >>

\* One call process_dataset(base_dir, output_base_dir, split, image_src_dir)
InitDataset ==
    \E s \in Splits, r \in 0..MaxRecords, t \in 0..MaxLabels :
        \E names \in [1..r -> Names], flat \in [1..t -> Labels],
           owner \in Owners(t, r) :
            /\ input = [u \in Splits |->
                          IF u = s THEN MakeDataset(names, flat, owner) ELSE << >>]
            /\ Start(<< s >>)

NextDataset ==
    \/ ProcessDataset
    \/ CopyImage
    \/ MissingImage
    \/ ProcessLabel
    \/ CloseFile
    \/ Return
    \/ ProcessDatasetReturn

SpecDataset == InitDataset /\ [][NextDataset]_vars

\* The program: lines 112-154
Init ==
    /\ \E r \in 0..MainMaxRecords, t \in 0..MainMaxLabels,
          vr \in 0..MainMaxRecords, vt \in 0..MainMaxValLabels :
          \E names \in [1..r -> Names], flat \in [1..t -> MainLabels],
             owner \in Owners(t, r),
             vnames \in [1..vr -> Names], vflat \in [1..vt -> MainLabels],
             vowner \in Owners(vt, vr) :
              input = [train |-> MakeDataset(names, flat, owner),
                       val |-> MakeDataset(vnames, vflat, vowner)]
    /\ Start(<< "train", "val" >>)

Next ==
    \/ ProcessDataset
    \/ CopyImage
    \/ MissingImage
    \/ ProcessLabel
    \/ CloseFile
    \/ Return
    \/ ProcessDatasetReturn
    \/ WriteYaml

Spec == Init /\ [][Next]_vars

(***************************************************************************)
(* Notions the properties are stated with                                  *)
(***************************************************************************)
\* The labels of a JSON array, as (record index, label index) pairs
LabelPlaces(d) ==
    UNION { { <<k, l>> : l \in 1..Len(d[k].labels) } : k \in 1..Len(d) }

\* Distinct category values of all labels that have a category field
CategoriesIn(d) ==
    { d[p[1]].labels[p[2]].category :
        p \in { q \in LabelPlaces(d) : "category" \in DOMAIN d[q[1]].labels[q[2]] } }

\* A label that is due a line: poly2d, a mapped category, a first polygon of
\* at least three vertices
Qualifies(label, mapping) ==
    /\ "poly2d" \in DOMAIN label
    /\ "category" \in DOMAIN label
    /\ label.category \in KeySet(mapping)
    /\ label.poly2d # << >>
    /\ Len(label.poly2d[1].vertices) >= 3

\* The item being converted, its label file, and the labels the inner loop
\* has dealt with
InItem == pc \in {"labels", "crashed"}
CurrentFile == label_files[split][data[i].name.stem]
LabelsDone == SubSeq(data[i].labels, 1, j - 1)
QualifiedDone ==
    LET Q(label) == Qualifies(label, category_mapping)
    IN  SelectSeq(LabelsDone, Q)

\* v is size-normalised coordinate c printed with six decimals: the millionth
\* nearest to c/size
IsNormalised(v, c, size) ==
    LET diff == v * size - c * 1000000
    IN  /\ 2 * diff <= size
        /\ 2 * diff >= -size

\* Records whose image exists in the source directory
Present(d) == { k \in 1..Len(d) : d[k].name \in SrcImages }

\* poly2d labels of category c among the records K of d
Instances(d, K, c) ==
    Cardinality({ p \in LabelPlaces(d) :
                    /\ p[1] \in K
                    /\ "poly2d" \in DOMAIN d[p[1]].labels[p[2]]
                    /\ "category" \in DOMAIN d[p[1]].labels[p[2]]
                    /\ d[p[1]].labels[p[2]].category = c })

(***************************************************************************)
(* Properties                                                              *)
(***************************************************************************)
\* C1: the mapping process_dataset gets from update_category_mapping has as
\* keys exactly the distinct categories of all labels with a category field
\* (with or without poly2d), as values exactly 0..n-1 without repeats, and
\* gives the smaller id to the lexicographically smaller name.
C1_MappingIsSortedEnumeration ==
    pc \in {"loop", "labels", "returned", "crashed"} =>
        LET m == category_mapping
            cats == CategoriesIn(input[split])
        IN  /\ KeySet(m) = cats
            /\ Len(m) = Cardinality(cats)
            /\ { m[k][2] : k \in 1..Len(m) } = 0..(Cardinality(cats) - 1)
            /\ \A a \in cats, b \in cats :
                  LexLess(a, b) => Get(m, a) < Get(m, b)

\* C1 witness: a mapping of two categories, one of them taken from a label
\* without poly2d, built from a file that also has a label without category
\* or a label with poly2d.
C1_Witness ==
    /\ pc = "returned"
    /\ Len(category_mapping) = 2
    /\ Has(category_mapping, person)
    /\ Has(category_mapping, bike)
    /\ Get(category_mapping, bike) = 0
    /\ Get(category_mapping, person) = 1
    /\ \E p \in LabelPlaces(data) : data[p[1]].labels[p[2]] = LPersonBox

\* C2: at the return of bdd100k_to_yolov8, a record whose image is missing
\* has no label file of its own, is in the missing list, and the processed
\* count and the per-category counters are what the records with an image
\* alone give.
C2_MissingRecordLeavesCountsUnaffected ==
    pc = "returned" =>
        /\ ret.processed_count = Cardinality({ data[k].name : k \in Present(data) })
        /\ \A c \in Categories :
              Count(ret.category_instances, c) = Instances(data, Present(data), c)
        /\ ret.missing_count = Len(data) - Cardinality(Present(data))
        /\ \A k \in 1..Len(data) :
              k \notin Present(data) =>
                 /\ \E n \in 1..Len(missing_images) : missing_images[n] = data[k].name
                 /\ data[k].name.stem \notin DOMAIN label_files[split]

\* C3: a poly2d label whose category is not in category_mapping adds no line
\* and no count, and the loop goes on to the next label.
C3_UnmappedLabelContributesNothing ==
    [][ ( /\ pc = "labels"
          /\ j <= Len(data[i].labels)
          /\ "poly2d" \in DOMAIN data[i].labels[j]
          /\ "category" \in DOMAIN data[i].labels[j]
          /\ ~Has(category_mapping, data[i].labels[j].category) )
        => ( /\ label_files' = label_files
             /\ categories_in_json' = categories_in_json
             /\ pc' = "labels"
             /\ j' = j + 1 ) ]_vars

\* C4: every copied image has its label file, and the file of the item
\* being converted holds one line per qualifying label dealt with so far: a
\* label whose first polygon has 0, 1 or 2 vertices adds none, and an item
\* without qualifying label leaves an empty file.
C4_LabelFileExistsAndSkipsSmallPolygons ==
    /\ \A n \in dst_images[split] : n.stem \in DOMAIN label_files[split]
    /\ InItem =>
         /\ data[i].name \in dst_images[split]
         /\ Len(CurrentFile) = Len(QualifiedDone)

\* C4 witness: an item whose labels all have poly2d with a first polygon of
\* fewer than three vertices has been converted, and its file is empty.
C4_Witness ==
    /\ pc = "labels"
    /\ j > Len(data[i].labels)
    /\ Len(data[i].labels) = 2
    /\ \A l \in 1..Len(data[i].labels) :
          /\ "poly2d" \in DOMAIN data[i].labels[l]
          /\ data[i].labels[l].poly2d # << >>
          /\ Len(data[i].labels[l].poly2d[1].vertices) < 3
    /\ \E l \in 1..Len(data[i].labels) :
          Len(data[i].labels[l].poly2d[1].vertices) = 2
    /\ CurrentFile = << >>

\* C5: the n-th line of the file is the line of the n-th qualifying label:
\* the category's id, then 2*k values, x_1/1280 y_1/720 ... x_k/1280 y_k/720
\* in vertex order, each within [0,1] when the coordinate is within the
\* image, and (640, 360) gives 0.500000 0.500000.
C5_LineIsNormalisedPolygon ==
    InItem =>
        /\ Len(CurrentFile) = Len(QualifiedDone)
        /\ \A n \in 1..Len(QualifiedDone) :
              LET line == CurrentFile[n]
                  label == QualifiedDone[n]
                  poly == label.poly2d[1].vertices
              IN  /\ line.category_id = Get(category_mapping, label.category)
                  /\ Len(line.values) = 2 * Len(poly)
                  /\ \A v \in 1..Len(poly) :
                        LET x == poly[v][1]
                            y == poly[v][2]
                            nx == line.values[2 * v - 1]
                            ny == line.values[2 * v]
                        IN  /\ IsNormalised(nx, x, 1280)
                            /\ IsNormalised(ny, y, 720)
                            /\ (0 <= x /\ x <= 1280) => (0 <= nx /\ nx <= 1000000)
                            /\ (0 <= y /\ y <= 720) => (0 <= ny /\ ny <= 1000000)
                            /\ (x = 640 /\ y = 360) => (nx = 500000 /\ ny = 500000)

\* C5 witness: two lines were written, one for a polygon inside the image
\* with vertex (640, 360), one for a polygon with vertices outside it and a
\* value that is rounded.
C5_Witness ==
    /\ pc = "labels"
    /\ Len(CurrentFile) = 2
    /\ Len(CurrentFile[1].values) = 8
    /\ CurrentFile[1].values[5] = 500000
    /\ CurrentFile[1].values[6] = 500000
    /\ Len(CurrentFile[2].values) = 6
    /\ CurrentFile[2].values[2] = 1389
    /\ CurrentFile[2].values[3] = 1500000

\* C6: data.yaml has nc equal to the size of the train mapping and names
\* listing the train categories in id order; a category that only the
\* validation labels have is not in it.
C6_ManifestIsTrainMapping ==
    data_yaml # << >> =>
        LET yaml == data_yaml[1]
            train == results["train"].category_mapping
        IN  /\ yaml.nc = Len(train)
            /\ yaml.nc = Cardinality(CategoriesIn(input["train"]))
            /\ Len(yaml.names) = yaml.nc
            /\ \A k \in 0..(yaml.nc - 1) :
                  /\ Has(train, yaml.names[k + 1])
                  /\ Get(train, yaml.names[k + 1]) = k
            /\ \A c \in CategoriesIn(input["val"]) \ CategoriesIn(input["train"]) :
                  \A k \in 1..Len(yaml.names) : yaml.names[k] # c

\* C6 witness: a manifest of two names while the validation labels have a
\* category of their own.
C6_Witness ==
    /\ data_yaml # << >>
    /\ data_yaml[1].nc = 2
    /\ data_yaml[1].names = << bike, car >>
    /\ person \in CategoriesIn(input["val"])

\* C7: in a process_dataset run every counted category is a key of the
\* split's mapping, at every point of the conversion, and no "not in
\* category_mapping" warning is printed.
C7_CountedCategoriesAreMapped ==
    /\ DOMAIN categories_in_json \subseteq KeySet(category_mapping)
    /\ DOMAIN ret.category_instances \subseteq KeySet(category_mapping)
    /\ warnings = << >>

\* C7 witness: the conversion returned with a counted category and a mapped
\* category that has no instance.
C7_Witness ==
    /\ pc = "returned"
    /\ \E c \in KeySet(category_mapping) : Count(ret.category_instances, c) = 0
    /\ \E c \in KeySet(category_mapping) : Count(ret.category_instances, c) > 0

\* C8: the count process_dataset prints as images copied and as label files
\* created is the number of images in the destination directory and the
\* number of label files of the split.
C8_ReportedCountsAreFilesOnDisk ==
    \A s \in DOMAIN report :
        /\ report[s].images_copied = Cardinality(dst_images[s])
        /\ report[s].label_files_created = Cardinality(DOMAIN label_files[s])

\* C9: once data.yaml is written, every line of every label file of either
\* split starts with an id below nc whose entry in names is the category of
\* the label the line was written for.
C9_LineIdsMatchManifest ==
    pc = "done" =>
        \A s \in Splits :
            \A f \in DOMAIN label_files[s] :
                \A n \in 1..Len(label_files[s][f]) :
                    LET line == label_files[s][f][n]
                    IN  /\ line.category_id < data_yaml[1].nc
                        /\ data_yaml[1].names[line.category_id + 1] = line.category

\* C10: no label without poly2d, with poly2d but without category, with an
\* unmapped category or with a first polygon of fewer than three vertices
\* makes the pass abort, and when the pass returns it has gone through all
\* records, each of them either in the missing list or with its image
\* copied and its label file written.
C10_PassVisitsEveryRecord ==
    /\ pc = "crashed" =>
          LET label == data[i].labels[j]
          IN  ~ \/ "poly2d" \notin DOMAIN label
                \/ "category" \notin DOMAIN label
                \/ ~Has(category_mapping, label.category)
                \/ /\ label.poly2d # << >>
                   /\ Len(label.poly2d[1].vertices) < 3
    /\ pc = "returned" =>
          /\ i = Len(data) + 1
          /\ \A k \in 1..Len(data) :
                \/ \E n \in 1..Len(missing_images) : missing_images[n] = data[k].name
                \/ /\ data[k].name \in dst_images[split]
                   /\ data[k].name.stem \in DOMAIN label_files[split]

====
